---- MODULE Spec2Model ----
(***************************************************************************)
(* Model of examples/calibrate.py: the camera wrapper (camera.__init__,    *)
(* camera.capture) and the calibration sweep (main), run against a driver  *)
(* whose calls may raise and whose exposure and gain registers quantize.   *)
(* Real numbers (frame rate, exposure in milliseconds, frame means) are    *)
(* exact rationals <<numerator, denominator>> in lowest terms.             *)
(***************************************************************************)
EXTENDS Integers, Sequences, FiniteSets, TLC

(* ------------------------------ bounds -------------------------------- *)

\* capture() is called with average in 0..MaxAverage
MaxAverage == 2

\* a frame is an array of one pixel with a value in 0..MaxPixel
MaxPixel == 1

(* -------------------------- program constants ------------------------- *)

EXPOSURE_VALUES ==
    <<100, 500, 1000, 5000, 10000, 50000, 100000, 500000, 1000000, 5000000, 8000000>>

GAIN_VALUES == <<0, 20, 40, 60, 80, 100>>

BOOST_VALUES == <<FALSE, TRUE>>

IDS_MAX_PIXEL_CLOCK == 30

FRAME_RATE_CAP == 100

(* ------------------------------ rationals ----------------------------- *)

RECURSIVE GCD(_, _)
GCD(a, b) == IF b = 0 THEN a ELSE GCD(b, a % b)

Rat(n, d) == LET g == GCD(n, d) IN <<n \div g, d \div g>>

RatLeq(a, b) == a[1] * b[2] <= b[1] * a[2]

RatMin(a, b) == IF RatLeq(a, b) THEN a ELSE b

RatScale(a, k) == Rat(a[1] * k, a[2])

\* smallest integer >= n/d
CeilDiv(n, d) == (n + d - 1) \div d

(* ------------------------- the driver stand-in ------------------------ *)

\* A driver: the lower and upper pixel clock it reports, the step (in
\* microseconds) to which it rounds a requested exposure up, the step to
\* which it rounds a requested gain down, and the info record it reports.
DriverProfiles ==
    { [pixelclock_range |-> <<5, 30>>, expStep |-> 1, gainStep |-> 1,
       info |-> [serial_num |-> "4002795734", model |-> "UI324x"]],
      [pixelclock_range |-> <<7, 35>>, expStep |-> 120, gainStep |-> 3,
       info |-> [serial_num |-> "4102862001", model |-> "UI124x"]] }

DriverErrors == {"IDSTimeoutError", "IDSCaptureStatus"}

IOErrors == {"IOError"}

Frames == { <<p>> : p \in 0..MaxPixel }

\* the exposure (ms) the device holds after a request of ms milliseconds
DriverExposure(driver, ms) ==
    LET us == RatScale(ms, 1000)
        q  == CeilDiv(us[1], us[2] * driver.expStep) * driver.expStep
    IN  Rat(q, 1000)

\* the gain the device holds after a request of g
DriverGain(driver, g) == (g \div driver.gainStep) * driver.gainStep

(* ------------------------- pure parts of capture ---------------------- *)

\* the comparison of line 63 written >= : the boundary exposure takes the minimum clock
PixelClockForGeq(exposure_us, range) ==
    IF exposure_us >= 1000 THEN range[1] ELSE IDS_MAX_PIXEL_CLOCK

PixelClockFor(exposure_us, range) ==
    IF exposure_us > 1000 THEN range[1] ELSE IDS_MAX_PIXEL_CLOCK

\* line 81 with the larger of the two rates taken
FrameRateForMax(exposure_us) ==
    LET a == Rat(FRAME_RATE_CAP, 1)
        b == Rat(1000000, exposure_us)
    IN  IF RatLeq(a, b) THEN b ELSE a

FrameRateFor(exposure_us) ==
    RatMin(Rat(FRAME_RATE_CAP, 1), Rat(1000000, exposure_us))

ExposureMs(exposure_us) == Rat(exposure_us, 1000)

RECURSIVE SumPixel(_, _)
SumPixel(imgs, p) ==
    IF imgs = <<>> THEN 0 ELSE imgs[1][p] + SumPixel(Tail(imgs), p)

\* np.mean(imgs, axis=0): the pixelwise mean over the list of frames
Mean(imgs) ==
    [p \in 1..Len(imgs[1]) |-> Rat(SumPixel(imgs, p), Len(imgs))]

\* np.squeeze(imgs).astype(float): axes of length one are dropped
Squeeze(imgs) ==
    IF Len(imgs) = 1
    THEN [p \in 1..Len(imgs[1]) |-> Rat(imgs[1][p], 1)]
    ELSE [k \in 1..Len(imgs) |-> [p \in 1..Len(imgs[k]) |-> Rat(imgs[k][p], 1)]]

Reduce(imgs, average) == IF average > 0 THEN Mean(imgs) ELSE Squeeze(imgs)

(* ----------------------------- file names ----------------------------- *)

DigitChar == <<"0", "1", "2", "3", "4", "5", "6", "7", "8", "9">>

RECURSIVE Str(_)
Str(n) == IF n < 10 THEN DigitChar[n + 1] ELSE Str(n \div 10) \o DigitChar[(n % 10) + 1]

RECURSIVE ZeroPad(_, _)
ZeroPad(s, w) == IF Len(s) >= w THEN s ELSE ZeroPad("0" \o s, w)

BoolStr(b) == IF b THEN "True" ELSE "False"

\* the format of line 128 without the boost field
BaseNameNoBoost(exposure, gain, gain_boost) ==
    "exp_" \o ZeroPad(Str(exposure), 7) \o "_gain_" \o ZeroPad(Str(gain), 3)

\* "exp_{:07}_gain_{:03}_boost_{}".format(exposure, gain, gain_boost)
BaseName(exposure, gain, gain_boost) ==
    "exp_" \o ZeroPad(Str(exposure), 7) \o "_gain_" \o ZeroPad(Str(gain), 3)
        \o "_boost_" \o BoolStr(gain_boost)

PathJoin(a, b) == a \o "/" \o b

BasePath(info) == PathJoin("results", info.serial_num)

MatPath(info, exposure, gain, gain_boost) ==
    PathJoin(BasePath(info), BaseName(exposure, gain, gain_boost) \o ".mat")

InfoPath(info) == PathJoin(BasePath(info), "info.json")

(* ------------------------------- state -------------------------------- *)

VARIABLES
    pc,        \* position of the program
    drv,       \* the driver the program runs against
    grid,      \* the sweep: exposures, gains, boosts and the averaging count
    cam,       \* the device's properties
    point,     \* number of sweep points whose loop body was entered
    args,      \* capture's parameters for the current call
    imgs,      \* capture's list of frames
    pending,   \* the error in flight while the finally block runs
    err,       \* the error that left the program
    data,      \* the value capture returned last
    dirs,      \* directories of the file system
    files,     \* files of the file system: path -> content
    log,       \* driver calls of the current capture() call, in order
    writes     \* file writes of the run, in order

vars == <<pc, drv, grid, cam, point, args, imgs, pending, err, data, dirs, files,
          log, writes>>

NoError == [step |-> "none", exc |-> "none"]

NoArgs == [exposure_us |-> 0, gain |-> 0, gain_boost |-> FALSE, average |-> 0]

NoData == [array |-> <<>>, exposure |-> <<0, 1>>, gain |-> 0]

Pick(seq, idx) == [k \in 1..Len(idx) |-> seq[idx[k]]]

\* the sweeps the program is run with: sub-grids of the module constants
SweepConfigs ==
    { [exposures |-> Pick(EXPOSURE_VALUES, <<1, 3>>),
       gains     |-> Pick(GAIN_VALUES, <<1, 2>>),
       boosts    |-> Pick(BOOST_VALUES, <<1>>)],
      [exposures |-> Pick(EXPOSURE_VALUES, <<11>>),
       gains     |-> Pick(GAIN_VALUES, <<6>>),
       boosts    |-> BOOST_VALUES],
      [exposures |-> Pick(EXPOSURE_VALUES, <<5, 6>>),
       gains     |-> Pick(GAIN_VALUES, <<3>>),
       boosts    |-> Pick(BOOST_VALUES, <<2>>)] }

NumPoints == Len(grid.exposures) * Len(grid.gains) * Len(grid.boosts)

\* the k-th sweep point (k from 0) of the nested loops: gain_boost outermost,
\* gain in the middle, exposure innermost
PointAt(k) ==
    LET nE == Len(grid.exposures)
        nG == Len(grid.gains)
    IN  [exposure   |-> grid.exposures[(k % nE) + 1],
         gain       |-> grid.gains[((k \div nE) % nG) + 1],
         gain_boost |-> grid.boosts[(k \div (nE * nG)) + 1]]

Init ==
    /\ pc = "init"
    /\ drv \in DriverProfiles
    /\ \E c \in SweepConfigs, n \in 0..MaxAverage :
          grid = [exposures |-> c.exposures, gains |-> c.gains, boosts |-> c.boosts,
                  average |-> n]
    /\ \E cc \in BOOLEAN :
          cam = [continuous_capture |-> cc, auto_white_balance |-> TRUE,
                 auto_exposure |-> TRUE, exposure |-> Rat(20, 1), color_mode |-> "default",
                 gain_boost |-> FALSE, gain |-> 0, pixelclock |-> 0,
                 framerate |-> Rat(0, 1)]
    /\ point = 0
    /\ args = NoArgs
    /\ imgs = <<>>
    /\ pending = NoError
    /\ err = NoError
    /\ data = NoData
    /\ \E existing \in BOOLEAN :
          dirs = IF existing THEN {"results", BasePath(drv.info)} ELSE {}
    /\ files = << >>
    /\ log = <<>>
    /\ writes = <<>>

(* ------------------------------ helpers ------------------------------- *)

\* a call into the driver: what was assigned or pulled, and the error it raised
Event(op, val, exc) == [op |-> op, val |-> val, ok |-> exc = "none", exc |-> exc]

Error(step, exc) == [step |-> step, exc |-> exc]

WriteFile(fs, path, content) ==
    [n \in (DOMAIN fs) \cup {path} |-> IF n = path THEN content ELSE fs[n]]

Truncated == [truncated |-> TRUE]

\* the loop body wrapped in a handler that goes on with the next sweep point
PropagateAndContinue(e) ==
    /\ pc' = "sweep"
    /\ err' = e

\* An error that nothing catches: main has no handler, the process ends.
Propagate(e) ==
    /\ pc' = "aborted"
    /\ err' = e

(* --------------------------- camera.__init__ -------------------------- *)

InitProps ==
    <<"auto_white_balance", "continuous_capture", "auto_exposure", "exposure",
      "color_mode", "gain_boost", "gain">>

InitValue(prop) ==
    CASE prop = "auto_white_balance" -> FALSE
      [] prop = "continuous_capture" -> FALSE
      [] prop = "auto_exposure"      -> FALSE
      [] prop = "exposure"           -> DriverExposure(drv, Rat(100, 1))
      [] prop = "color_mode"         -> "COLOR_BAYER_8"
      [] prop = "gain_boost"         -> FALSE
      [] prop = "gain"               -> DriverGain(drv, 0)

\* the device after the first k assignments of __init__
RECURSIVE AfterInit(_, _)
AfterInit(device, k) ==
    IF k = 0 THEN device
    ELSE LET d == AfterInit(device, k - 1)
         IN  [d EXCEPT ![InitProps[k]] = InitValue(InitProps[k])]

\* cam = camera(): opens the device and assigns the seven properties; the
\* open or any assignment may raise, leaving the earlier assignments done.
CameraInit ==
    /\ pc = "init"
    /\ \/ /\ cam' = AfterInit(cam, Len(InitProps))
          /\ pc' = "makedirs"
          /\ UNCHANGED err
       \/ \E k \in 0..(Len(InitProps) - 1), x \in DriverErrors :
             /\ cam' = AfterInit(cam, k)
             /\ Propagate(Error("__init__." \o InitProps[k + 1], x))
       \/ \E x \in DriverErrors :
             /\ cam' = cam
             /\ Propagate(Error("open", x))
    /\ UNCHANGED <<drv, grid, point, args, imgs, pending, data, dirs, files, log, writes>>

(* ------------------------- main: before the sweep --------------------- *)

\* if not os.path.isdir(base_path): os.makedirs(base_path)
MakeDirs ==
    /\ pc = "makedirs"
    /\ \/ /\ dirs' = dirs \cup {"results", BasePath(drv.info)}
          /\ pc' = "info"
          /\ UNCHANGED err
       \/ /\ BasePath(drv.info) \notin dirs
          /\ \E x \in IOErrors : Propagate(Error("makedirs", x))
          /\ UNCHANGED dirs
    /\ UNCHANGED <<drv, grid, cam, point, args, imgs, pending, data, files, log, writes>>

\* with open(.../info.json, 'w') as f: json.dump(cam_info, f)
DumpInfo ==
    /\ pc = "info"
    /\ \/ /\ files' = WriteFile(files, InfoPath(drv.info), drv.info)
          /\ writes' = Append(writes, [path |-> InfoPath(drv.info), content |-> drv.info])
          /\ pc' = "sweep"
          /\ UNCHANGED err
       \/ /\ \E x \in IOErrors : Propagate(Error("info.json", x))
          /\ \/ files' = files
             \/ files' = WriteFile(files, InfoPath(drv.info), Truncated)
          /\ UNCHANGED writes
    /\ UNCHANGED <<drv, grid, cam, point, args, imgs, pending, data, dirs, log>>

(* ------------------------- main: the sweep loops ---------------------- *)

\* the loop headers and the call cam.capture(exposure_us=..., gain=..., gain_boost=...)
EnterPoint ==
    /\ pc = "sweep"
    /\ point < NumPoints
    /\ LET p == PointAt(point)
       IN  args' = [exposure_us |-> p.exposure, gain |-> p.gain,
                    gain_boost |-> p.gain_boost, average |-> grid.average]
    /\ point' = point + 1
    /\ log' = <<>>
    /\ imgs' = <<>>
    /\ pc' = "pixelclock"
    /\ UNCHANGED <<drv, grid, cam, pending, err, data, dirs, files, writes>>

\* the loops are exhausted: plt.imshow(data[0]); plt.show()
Show ==
    /\ pc = "sweep"
    /\ point = NumPoints
    /\ pc' = "done"
    /\ UNCHANGED <<drv, grid, cam, point, args, imgs, pending, err, data, dirs, files,
                   log, writes>>

(* ---------------------------- camera.capture -------------------------- *)

\* An assignment to a property of the device: the driver takes the value
\* (stored is what the device then holds) or raises and changes nothing.
\* capture has no handler around its configuration, so the error leaves it.
DriverSet(step, prop, val, stored, next) ==
    /\ pc = step
    /\ \/ /\ log' = Append(log, Event(prop, val, "none"))
          /\ cam' = [cam EXCEPT ![prop] = stored]
          /\ pc' = next
          /\ UNCHANGED err
       \/ \E x \in DriverErrors :
             /\ log' = Append(log, Event(prop, val, x))
             /\ cam' = cam
             /\ Propagate(Error(step, x))
    /\ UNCHANGED <<drv, grid, point, args, imgs, pending, data, dirs, files, writes>>

SetPixelClock ==
    LET v == PixelClockFor(args.exposure_us, drv.pixelclock_range)
    IN  DriverSet("pixelclock", "pixelclock", v, v, "framerate")

SetFrameRate ==
    LET v == FrameRateFor(args.exposure_us)
    IN  DriverSet("framerate", "framerate", v, v, "exposure")

SetExposure ==
    LET v == ExposureMs(args.exposure_us)
    IN  DriverSet("exposure", "exposure", v, DriverExposure(drv, v), "gain")

SetGain ==
    DriverSet("gain", "gain", args.gain, DriverGain(drv, args.gain), "gain_boost")

SetGainBoost ==
    DriverSet("gain_boost", "gain_boost", args.gain_boost, args.gain_boost, "enable")

\* line 90 assigning False
EnableCaptureOff ==
    DriverSet("enable", "continuous_capture", FALSE, FALSE, "warmup")

EnableCapture ==
    DriverSet("enable", "continuous_capture", TRUE, TRUE, "warmup")

\* frames the driver has delivered in the current call
Pulled(l) == SelectSeq(l, LAMBDA e : e.op = "next" /\ e.ok)

\* the try block without its finally clause: the loop falls through to line 102
AfterPullNoFinally(l) ==
    IF Len(Pulled(l)) - 1 < args.average THEN "loop" ELSE "reduce"

\* where the try block goes after a delivered frame: for i in range(average)
AfterPull(l) ==
    IF Len(Pulled(l)) - 1 < args.average THEN "loop" ELSE "finally"

\* the first frame kept: imgs = [first frame]
NextFrameKept ==
    /\ pc = "warmup"
    /\ \/ \E f \in Frames :
             /\ log' = Append(log, Event("next", f, "none"))
             /\ imgs' = <<f>>
             /\ pc' = AfterPull(log')
             /\ UNCHANGED pending
       \/ \E x \in DriverErrors :
             /\ log' = Append(log, Event("next", <<>>, x))
             /\ pending' = Error("next", x)
             /\ pc' = "finally"
             /\ UNCHANGED imgs
    /\ UNCHANGED <<drv, grid, cam, point, args, err, data, dirs, files, writes>>

\* _, _ = self._cam.next(); imgs = []
NextFrame ==
    /\ pc = "warmup"
    /\ \/ \E f \in Frames :
             /\ log' = Append(log, Event("next", f, "none"))
             /\ imgs' = <<>>
             /\ pc' = AfterPull(log')
             /\ UNCHANGED pending
       \/ \E x \in DriverErrors :
             /\ log' = Append(log, Event("next", <<>>, x))
             /\ pending' = Error("next", x)
             /\ pc' = "finally"
             /\ UNCHANGED imgs
    /\ UNCHANGED <<drv, grid, cam, point, args, err, data, dirs, files, writes>>

\* img_array, meta_data = self._cam.next(); imgs.append(img_array)
GrabFrame ==
    /\ pc = "loop"
    /\ \/ \E f \in Frames :
             /\ log' = Append(log, Event("next", f, "none"))
             /\ imgs' = Append(imgs, f)
             /\ pc' = AfterPull(log')
             /\ UNCHANGED pending
       \/ \E x \in DriverErrors :
             /\ log' = Append(log, Event("next", <<>>, x))
             /\ pending' = Error("next", x)
             /\ pc' = "finally"
             /\ UNCHANGED imgs
    /\ UNCHANGED <<drv, grid, cam, point, args, err, data, dirs, files, writes>>

\* the disable placed after the try block instead of in a finally clause: an
\* error of a frame pull leaves capture without it
DisableCaptureOnSuccess ==
    /\ pc = "finally"
    /\ IF pending = NoError
       THEN \/ /\ log' = Append(log, Event("continuous_capture", FALSE, "none"))
               /\ cam' = [cam EXCEPT !.continuous_capture = FALSE]
               /\ pc' = "reduce"
               /\ UNCHANGED err
            \/ \E x \in DriverErrors :
                  /\ log' = Append(log, Event("continuous_capture", FALSE, x))
                  /\ cam' = cam
                  /\ Propagate(Error("disable", x))
       ELSE /\ Propagate(pending)
            /\ UNCHANGED <<log, cam>>
    /\ pending' = NoError
    /\ UNCHANGED <<drv, grid, point, args, imgs, data, dirs, files, writes>>

\* finally: self._cam.continuous_capture = False
\* Runs on both ways out of the try block; an error in flight goes on to the
\* caller afterwards, and an error of the assignment itself takes its place.
DisableCapture ==
    /\ pc = "finally"
    /\ \/ /\ log' = Append(log, Event("continuous_capture", FALSE, "none"))
          /\ cam' = [cam EXCEPT !.continuous_capture = FALSE]
          /\ IF pending = NoError
             THEN pc' = "reduce" /\ UNCHANGED err
             ELSE Propagate(pending)
       \/ \E x \in DriverErrors :
             /\ log' = Append(log, Event("continuous_capture", FALSE, x))
             /\ cam' = cam
             /\ Propagate(Error("disable", x))
    /\ pending' = NoError
    /\ UNCHANGED <<drv, grid, point, args, imgs, data, dirs, files, writes>>

\* line 107 returning what the caller asked for instead of the read-back
CaptureResultRequested(img, device) ==
    [array |-> img, exposure |-> Rat(args.exposure_us, 1), gain |-> args.gain]

\* img, self._cam.exposure * 1e3, self._cam.gain
CaptureResult(img, device) ==
    [array |-> img, exposure |-> RatScale(device.exposure, 1000), gain |-> device.gain]

\* the reduction of imgs and return img, self._cam.exposure * 1e3, self._cam.gain
Return ==
    /\ pc = "reduce"
    /\ \/ /\ data' = CaptureResult(Reduce(imgs, args.average), cam)
          /\ pc' = "save"
          /\ UNCHANGED err
       \/ /\ \E x \in DriverErrors : Propagate(Error("readback", x))
          /\ UNCHANGED data
    /\ UNCHANGED <<drv, grid, cam, point, args, imgs, pending, dirs, files, log, writes>>

(* --------------------------- main: the artifact ----------------------- *)

\* sio.savemat(mat_path, dict(array=data[0], exposure=data[1], gain=data[2]))
SaveMat ==
    /\ pc = "save"
    /\ LET p    == PointAt(point - 1)
           path == MatPath(drv.info, p.exposure, p.gain, p.gain_boost)
       IN  \/ /\ files' = WriteFile(files, path, data)
              /\ writes' = Append(writes, [path |-> path, content |-> data])
              /\ pc' = "sweep"
              /\ UNCHANGED err
           \/ /\ \E x \in IOErrors : Propagate(Error("savemat", x))
              /\ \/ files' = files
                 \/ files' = WriteFile(files, path, Truncated)
              /\ UNCHANGED writes
    /\ UNCHANGED <<drv, grid, cam, point, args, imgs, pending, data, dirs, log>>

Next ==
    \/ CameraInit
    \/ MakeDirs
    \/ DumpInfo
    \/ EnterPoint
    \/ SetPixelClock
    \/ SetFrameRate
    \/ SetExposure
    \/ SetGain
    \/ SetGainBoost
    \/ EnableCapture
    \/ NextFrame
    \/ GrabFrame
    \/ DisableCapture
    \/ Return
    \/ SaveMat
    \/ Show

Spec == Init /\ [][Next]_vars

(* ------------------------ vocabulary of the claims -------------------- *)

CaptureSteps ==
    {"pixelclock", "framerate", "exposure", "gain", "gain_boost", "enable", "next",
     "disable", "readback"}

\* the steps whose errors capture lets through to its caller
ListedSteps ==
    {"pixelclock", "framerate", "exposure", "gain", "gain_boost", "enable", "next"}

\* the last capture() call returned to main
Returned ==
    /\ point > 0
    /\ \/ pc \in {"save", "sweep", "done"}
       \/ pc = "aborted" /\ err.step = "savemat"

\* an error left the last capture() call
Raised == pc = "aborted" /\ err.step \in CaptureSteps

CallOver == Returned \/ Raised

\* positions in the log of the current call
Disables == {k \in DOMAIN log : log[k].op = "continuous_capture" /\ log[k].val = FALSE}

Enables ==
    {k \in DOMAIN log : log[k].op = "continuous_capture" /\ log[k].val = TRUE /\ log[k].ok}

Pulls == {k \in DOMAIN log : log[k].op = "next"}

Failures == {k \in DOMAIN log : ~log[k].ok}

OpsAt(op) == {k \in DOMAIN log : log[k].op = op}

StepOf(e) ==
    IF e.op = "continuous_capture"
    THEN (IF e.val THEN "enable" ELSE "disable")
    ELSE e.op

TypeOK ==
    /\ pc \in {"init", "makedirs", "info", "sweep", "pixelclock", "framerate", "exposure",
               "gain", "gain_boost", "enable", "warmup", "loop", "finally", "reduce",
               "save", "done", "aborted"}
    /\ point \in 0..NumPoints
    /\ Len(imgs) <= MaxAverage

(* -------------------------------- claims ------------------------------ *)

\* C1 (as stated): every capture() call, whatever its outcome, has assigned
\* continuous_capture = False exactly once by the time it is over.
C1_DisableOncePerCall ==
    CallOver => Cardinality(Disables) = 1

\* C1 (amended): a capture() call whose enable of continuous capture succeeded
\* has assigned continuous_capture = False exactly once by the time it is over,
\* whether it returns or its k-th frame pull raises, and never more than once
\* while it runs; a call whose configuration or enable raised has not assigned
\* it at all.
C1_DisableOncePerEnabledCall ==
    /\ Cardinality(Disables) <= 1
    /\ CallOver => Cardinality(Disables) = (IF Enables # {} THEN 1 ELSE 0)
    /\ (Raised /\ err.step = "next") => Cardinality(Disables) = 1

\* a call with N = 2 whose third pull raised has disabled once
C1_Witness ==
    /\ Raised
    /\ err.step = "next"
    /\ args.average = 2
    /\ Cardinality(Pulls) = 3
    /\ Cardinality(Disables) = 1

\* C2: within a call, a successful enable precedes every frame pull, every
\* frame pull precedes the disable, and the stream is on whenever a frame is
\* about to be pulled; also when a pull fails.
C2_EnablePullsDisable ==
    /\ \A k \in Pulls :
          /\ \E e \in Enables : e < k
          /\ \A d \in Disables : k < d
    /\ pc \in {"warmup", "loop"} => cam.continuous_capture
    /\ (CallOver /\ Pulls # {}) => Disables # {}

\* a call whose second pull failed: enable, two pulls, then the disable
C2_Witness ==
    /\ Raised
    /\ err.step = "next"
    /\ Cardinality(Pulls) = 2
    /\ \E d \in Disables : \A k \in Pulls : k < d

RECURSIVE SumDelivered(_, _, _, _)
SumDelivered(frames, from, to, p) ==
    IF from > to THEN 0
    ELSE frames[from].val[p] + SumDelivered(frames, from + 1, to, p)

\* C4: a capture() call with N > 0 that returned made exactly N+1 frame pulls
\* and its image is the mean of the N frames delivered after the first one.
C4_MeanOfFramesAfterWarmup ==
    (Returned /\ args.average > 0) =>
        LET frames == Pulled(log)
            N      == args.average
        IN  /\ Cardinality(Pulls) = N + 1
            /\ Len(frames) = N + 1
            /\ Len(data.array) = Len(frames[1].val)
            /\ \A p \in DOMAIN data.array :
                  data.array[p][1] * N = data.array[p][2] * SumDelivered(frames, 2, N + 1, p)

\* N = 2, the discarded frame is 1 and the two averaged frames have mean 1/2
C4_Witness ==
    /\ Returned
    /\ args.average = 2
    /\ Pulled(log)[1].val = <<1>>
    /\ data.array = << <<1, 2>> >>

\* the artifact paths of the whole sweep
ExpectedMats ==
    { MatPath(drv.info, e, g, b) :
         e \in {grid.exposures[i] : i \in DOMAIN grid.exposures},
         g \in {grid.gains[i] : i \in DOMAIN grid.gains},
         b \in {grid.boosts[i] : i \in DOMAIN grid.boosts} }

WritesTo(path) == {k \in DOMAIN writes : writes[k].path = path}

Scenario ==
    /\ grid.exposures = <<100, 1000>>
    /\ grid.gains = <<0, 20>>
    /\ grid.boosts = <<FALSE>>

\* C5: a sweep that ran to its end made one capture per combination and wrote
\* each combination's artifact once, under a name of its own in the stated
\* format, and info.json once; nothing was written twice.
C5_OneArtifactPerPoint ==
    pc = "done" =>
        /\ point = Len(grid.exposures) * Len(grid.gains) * Len(grid.boosts)
        /\ Len(writes) = point + 1
        /\ DOMAIN files = ExpectedMats \cup {InfoPath(drv.info)}
        /\ Cardinality(DOMAIN files) = point + 1
        /\ \A f \in DOMAIN files : Cardinality(WritesTo(f)) = 1
        /\ \A f \in ExpectedMats :
              Len(f) \in { Len(BasePath(drv.info)) + 36, Len(BasePath(drv.info)) + 37 }
        /\ Scenario =>
              ExpectedMats =
                 { PathJoin(BasePath(drv.info), n) :
                      n \in {"exp_0000100_gain_000_boost_False.mat",
                             "exp_0000100_gain_020_boost_False.mat",
                             "exp_0001000_gain_000_boost_False.mat",
                             "exp_0001000_gain_020_boost_False.mat"} }

\* the sweep over both boost flags ended with its two artifacts and info.json
C5_Witness ==
    /\ pc = "done"
    /\ grid.boosts = <<FALSE, TRUE>>
    /\ point = 2
    /\ Cardinality(DOMAIN files) = 3

\* C6: once a capture or a write has failed the program has stopped at that
\* sweep point: the failed call was made once, no later point was entered, and
\* what was written before is on disk as it was written.
C6_FailFast ==
    err # NoError =>
        /\ pc = "aborted"
        /\ \A k \in DOMAIN writes :
              /\ writes[k].path \in DOMAIN files
              /\ files[writes[k].path] = writes[k].content
        /\ err.step \in CaptureSteps \cup {"savemat"} => Len(writes) = point
        /\ err.step \in CaptureSteps \ {"readback"} =>
              Cardinality({k \in Failures : StepOf(log[k]) = err.step}) = 1

\* the third sweep point's capture failed; info.json and two artifacts remain
C6_Witness ==
    /\ pc = "aborted"
    /\ err.step = "next"
    /\ point = 3
    /\ Len(writes) = 3
    /\ Cardinality(DOMAIN files) = 3

\* C7: what capture() returns as exposure and gain is what the device holds
\* after the call (the exposure, held in ms, times 1000), also where that
\* differs from the request, and the artifact stores those values.
C7_ReturnsReadBack ==
    /\ (pc = "save" /\ err = NoError) =>
          /\ data.exposure[1] * cam.exposure[2] = 1000 * cam.exposure[1] * data.exposure[2]
          /\ data.gain = cam.gain
          /\ (drv.expStep = 120 /\ args.exposure_us = 100) => data.exposure = <<120, 1>>
          /\ (drv.gainStep = 3 /\ args.gain = 20) => data.gain = 18
    /\ (pc = "sweep" /\ point > 0) =>
          LET p == PointAt(point - 1)
              f == files[MatPath(drv.info, p.exposure, p.gain, p.gain_boost)]
          IN  f.exposure = data.exposure /\ f.gain = data.gain /\ f.array = data.array

\* a request of 100 us on the driver that holds 120 us: 120 returned and stored
C7_Witness ==
    /\ pc = "sweep"
    /\ point = 1
    /\ args.exposure_us = 100
    /\ cam.exposure = <<3, 25>>
    /\ data.exposure = <<120, 1>>
    /\ files[MatPath(drv.info, 100, 0, FALSE)].exposure = <<120, 1>>

\* C8: the pixel clock capture() assigns is 30 for a requested exposure of at
\* most 1000 us and the first element of the driver's range above that.
C8_PixelClockPolicy ==
    /\ IDS_MAX_PIXEL_CLOCK = 30
    /\ \A k \in OpsAt("pixelclock") :
          log[k].val = (IF args.exposure_us <= 1000 THEN 30 ELSE drv.pixelclock_range[1])
    /\ pc \in {"framerate", "exposure", "gain", "gain_boost", "enable", "warmup", "loop",
               "finally", "reduce", "save"} => Cardinality(OpsAt("pixelclock")) = 1

\* the boundary: 1000 us takes the maximum clock though the driver's minimum is 7
C8_Witness ==
    /\ args.exposure_us = 1000
    /\ drv.pixelclock_range[1] = 7
    /\ pc = "framerate"
    /\ log[1].op = "pixelclock" /\ log[1].val = 30 /\ cam.pixelclock = 30

\* C9: the frame rate capture() assigns is 100 up to 10000 us and
\* 1000000 / exposure_us, below 100, above that; it is assigned after the
\* pixel clock and before the exposure.
C9_FrameRatePolicy ==
    /\ \A k \in OpsAt("framerate") :
          /\ IF args.exposure_us <= 10000
             THEN log[k].val = <<100, 1>>
             ELSE /\ log[k].val[1] * args.exposure_us = 1000000 * log[k].val[2]
                  /\ log[k].val[1] < 100 * log[k].val[2]
          /\ \E j \in OpsAt("pixelclock") : j < k /\ log[j].ok
          /\ \A j \in OpsAt("exposure") : k < j
    /\ \A j \in OpsAt("exposure") : \E k \in OpsAt("framerate") : k < j /\ log[k].ok

\* 8000000 us: the rate 1/8 is assigned between the pixel clock and the exposure
C9_Witness ==
    /\ args.exposure_us = 8000000
    /\ Len(log) >= 3
    /\ log[1].op = "pixelclock"
    /\ log[2].op = "framerate" /\ log[2].val = <<1, 8>>
    /\ log[3].op = "exposure" /\ log[3].ok

\* C10: with average = 0 the list of frames that is reduced to the image
\* holds exactly one frame.
C10_SingleFrameWhenZero ==
    (pc = "reduce" /\ args.average = 0) => Len(imgs) = 1

====
